---- MODULE Spec2Model ----
(***************************************************************************)
(* A model of cmd/giouiorg/page.go: the Markdown page pipeline (loadPage,  *)
(* includeExample, undent, loadMarkdown), the prebuilt page cache          *)
(* (loadDocs) and the HTTP handler (servePage, pageHandler).               *)
(*                                                                         *)
(* Byte strings are sequences of one-character strings.  Positions follow  *)
(* Go: they are 0-based, and Slice(s, lo, hi) is s[lo:hi].                 *)
(***************************************************************************)
EXTENDS Integers, Sequences, FiniteSets, TLC

VARIABLES
    \* undent, applied to one text
    srcLines,   \* the lines the input text is made of
    text,       \* the argument of undent
    undented,   \* the value undent returned
    upc,        \* "call" before the call, "done" after it, "off" when unused
    \* loadPage, applied to one file content
    content,    \* the argument of loadPage
    pg,         \* the (page, error) loadPage returned
    lpc,        \* "call", "done" or "off"
    \* includeExample, applied to one path and address
    incFS,      \* the files under the include root
    incPath,    \* the path argument
    incAddr,    \* the addr argument
    incContent, \* the local variable content, then the returned bytes
    incErr,     \* the returned error
    incPc,      \* "call", "ranged" (before line 156), "done" or "off"
    \* the server
    fs,         \* the files under the content root
    gae,        \* whether GAE_APPLICATION is set
    tmplErrOn,  \* the titles on which executing the template fails
    phase,      \* "init" (loadDocs running), "serving", "fatal" or "off"
    walk,       \* the paths filepath.Walk has still to visit
    pages,      \* the cache: page name -> rendered bytes
    loadErr,    \* the error loadDocs returned
    reqs        \* the requests in flight, one per handler goroutine

undentVars == <<srcLines, text, undented, upc>>
pageVars == <<content, pg, lpc>>
incVars == <<incFS, incPath, incAddr, incContent, incErr, incPc>>
srvVars == <<fs, gae, tmplErrOn, phase, walk, pages, loadErr, reqs>>
vars == <<undentVars, pageVars, incVars, srvVars>>

----------------------------------------------------------------------------
(* Byte-string helpers (package bytes / strings).                          *)

NL == "\n"
CR == "\r"
TAB == "\t"

Slice(s, lo, hi) == SubSeq(s, lo + 1, hi)

HasPrefix(s, p) == Len(p) <= Len(s) /\ SubSeq(s, 1, Len(p)) = p

\* The least element of a set of numbers, or none when it is empty.
LeastOr(S, none) == IF S = {} THEN none ELSE CHOOSE i \in S : \A j \in S : i <= j

\* bytes.Index: the 0-based position of the first occurrence of sep, or -1.
Index(s, sep) ==
    LeastOr({i \in 0..(Len(s) - Len(sep)) : Slice(s, i, i + Len(sep)) = sep}, -1)

Contains(s, sub) == Index(s, sub) # -1

\* bytes.SplitN with a non-empty separator: n > 0 gives at most n pieces,
\* the last one the unsplit rest; n = 0 gives none; n < 0 gives them all.
RECURSIVE SplitN(_, _, _)
\* The pieces of s, its first separator being at i (-1: it has none).
splitAt(s, sep, n, i) ==
    IF i = -1 THEN <<s>>
    ELSE <<Slice(s, 0, i)>> \o SplitN(Slice(s, i + Len(sep), Len(s)), sep, n - 1)

SplitN(s, sep, n) ==
    IF n = 0 THEN <<>>
    ELSE IF n = 1 THEN <<s>>
    ELSE splitAt(s, sep, n, Index(s, sep))

RECURSIVE Flatten(_)
Flatten(ss) == IF ss = <<>> THEN <<>> ELSE Head(ss) \o Flatten(Tail(ss))

\* All sequences over S of length at most n.
SeqsUpTo(S, n) == UNION {[1..k -> S] : k \in 0..n}

----------------------------------------------------------------------------
(* Paths and files (packages path/filepath, io/ioutil).                    *)

nil == "nil"

SEP == "/"

\* The elements of a path between its separators.
Elements(p) == SplitN(p, <<SEP>>, -1)

\* filepath.Clean's pass over the elements: empty and "." elements go, a
\* ".." takes the element before it with it, and goes itself at the root.
RECURSIVE cleanElements(_, _, _)
cleanElements(elems, out, rooted) ==
    IF elems = <<>> THEN out
    ELSE LET e == Head(elems)
             rest == Tail(elems)
         IN  IF e = <<>> \/ e = <<".">> THEN cleanElements(rest, out, rooted)
             ELSE IF e = <<".", ".">>
             THEN IF out # <<>> /\ out[Len(out)] # <<".", ".">>
                  THEN cleanElements(rest, SubSeq(out, 1, Len(out) - 1), rooted)
                  ELSE IF rooted THEN cleanElements(rest, out, rooted)
                  ELSE cleanElements(rest, Append(out, e), rooted)
             ELSE cleanElements(rest, Append(out, e), rooted)

RECURSIVE joinElements(_)
joinElements(elems) ==
    IF elems = <<>> THEN <<>>
    ELSE IF Len(elems) = 1 THEN elems[1]
    ELSE elems[1] \o <<SEP>> \o joinElements(Tail(elems))

IsRooted(p) == p # <<>> /\ p[1] = SEP

\* filepath.Clean: an empty result is ".".
dotIfEmpty(out) == IF out = <<>> THEN <<".">> ELSE out

Clean(p) ==
    dotIfEmpty((IF IsRooted(p) THEN <<SEP>> ELSE <<>>)
                 \o joinElements(cleanElements(Elements(p), <<>>, IsRooted(p))))

\* filepath.Join of two elements.
Join(a, b) ==
    IF a = <<>> /\ b = <<>> THEN <<>>
    ELSE IF a = <<>> THEN Clean(b)
    ELSE IF b = <<>> THEN Clean(a)
    ELSE Clean(a \o <<SEP>> \o b)

\* A file system is a function from clean paths to [dir, data] entries.
\* ioutil.ReadFile: the bytes of a regular file, or an error.
ReadFile(fsys, path) ==
    IF path \notin DOMAIN fsys
    THEN [err |-> "no such file or directory", data |-> <<>>]
    ELSE IF fsys[path].dir
    THEN [err |-> "is a directory", data |-> <<>>]
    ELSE [err |-> nil, data |-> fsys[path].data]

File(d) == [dir |-> FALSE, data |-> d]
Dir == [dir |-> TRUE, data |-> <<>>]

contentRoot == <<"c", "o", "n", "t", "e", "n", "t">>
includeRoot == <<"i", "n", "c", "l", "u", "d", "e">>

----------------------------------------------------------------------------
(* undent.                                                                 *)

OMIT == <<"O", "M", "I", "T">>

\* bufio.ScanLines drops one carriage return before the newline.
dropCR(line) ==
    IF Len(line) > 0 /\ line[Len(line)] = CR
    THEN SubSeq(line, 1, Len(line) - 1) ELSE line

\* The tokens scanner.Scan() yields over text: the lines, without their end
\* of line markers; a last line without newline is yielded when non-empty.
RECURSIVE ScanLines(_)
\* The tokens of t, its first newline being at i (-1: it has none).
scanAt(t, i) ==
    IF i = -1 THEN <<dropCR(t)>>
    ELSE <<dropCR(Slice(t, 0, i))>> \o ScanLines(Slice(t, i + 1, Len(t)))

ScanLines(t) == IF t = <<>> THEN <<>> ELSE scanAt(t, Index(t, <<NL>>))

\* for ntabs < len(line) && line[ntabs] == '\t' { ntabs++ }
RECURSIVE countTabs(_, _)
countTabs(line, ntabs) ==
    IF ntabs < Len(line) /\ line[ntabs + 1] = TAB
    THEN countTabs(line, ntabs + 1) ELSE ntabs

\* A bug stripTabs could have: it drops ntabs bytes whatever they are.
RECURSIVE stripTabsBlind(_, _, _)
stripTabsBlind(line, i, ntabs) ==
    IF i < ntabs /\ Len(line) > 0
    THEN stripTabsBlind(Tail(line), i + 1, ntabs) ELSE line

\* for i < ntabs && len(line) > 0 && line[0] == '\t' { i++; line = line[1:] }
RECURSIVE stripTabs(_, _, _)
stripTabs(line, i, ntabs) ==
    IF i < ntabs /\ Len(line) > 0 /\ line[1] = TAB
    THEN stripTabs(Tail(line), i + 1, ntabs) ELSE line

\* The body of the scanner loop, over the lines still to scan.
RECURSIVE undentLoop(_, _, _)
\* Lines 179-185 for one line, with ntabs known, and the loop's next rounds.
undentLine(lines, ntabs) ==
    stripTabs(Head(lines), 0, ntabs) \o <<NL>> \o undentLoop(Tail(lines), FALSE, ntabs)

undentLoop(lines, first, ntabs) ==
    IF lines = <<>> THEN <<>>
    ELSE IF Contains(Head(lines), OMIT)
    THEN undentLoop(Tail(lines), first, ntabs)
    ELSE undentLine(lines, IF first THEN countTabs(Head(lines), ntabs) ELSE ntabs)

undent(t) == undentLoop(ScanLines(t), TRUE, 0)

----------------------------------------------------------------------------
(* regexFor and includeExample.                                            *)

\* regexp.Compile, over the patterns of the model: letters, "/" and ","
\* stand for themselves, "^" is the beginning of the text, and a "(" has
\* no closing parenthesis, which is a syntax error.
regexpCompile(r) ==
    IF \E i \in 1..Len(r) : r[i] = "("
    THEN [err |-> "error parsing regexp: missing closing )", re |-> <<>>]
    ELSE [err |-> nil, re |-> r]

\* Where a match of re that begins at pos ends, or -1.
RECURSIVE matchHere(_, _, _)
matchHere(re, t, pos) ==
    IF re = <<>> THEN pos
    ELSE IF Head(re) = "^"
    THEN IF pos = 0 THEN matchHere(Tail(re), t, pos) ELSE -1
    ELSE IF pos < Len(t) /\ t[pos + 1] = Head(re)
    THEN matchHere(Tail(re), t, pos + 1)
    ELSE -1

\* (*Regexp).FindIndex: <<begin, end>> of the leftmost match, <<>> for nil.
findAt(re, t, i) == IF i = -1 THEN <<>> ELSE <<i, matchHere(re, t, i)>>

FindIndex(re, t) ==
    findAt(re, t, LeastOr({i \in 0..Len(t) : matchHere(re, t, i) # -1}, -1))

\* A bug regexFor could have: the closing separator is not looked at.
regexForOpenOnly(r) ==
    IF Len(r) < 2 \/ r[1] # "/"
    THEN [err |-> "missing / separators", re |-> <<>>]
    ELSE regexpCompile(SubSeq(r, 2, Len(r) - 1))

regexFor(r) ==
    IF Len(r) < 2 \/ r[1] # "/" \/ r[Len(r)] # "/"
    THEN [err |-> "missing / separators", re |-> <<>>]
    ELSE regexpCompile(SubSeq(r, 2, Len(r) - 1))

\* A bug the range selection could have: the end pattern is looked for in
\* the whole file, not from the beginning of the range on.
selectRangeEndAnywhere(c, startR, endR) ==
    LET startIdx == FindIndex(startR, c)
        endIdx == FindIndex(endR, c)
        lo == IF startIdx # <<>> THEN startIdx[1] ELSE 0
        hi == IF endIdx # <<>> THEN endIdx[2] ELSE Len(c)
    IN  Slice(c, lo, hi)

\* Lines 147-149.
fromStart(c, startIdx) ==
    IF startIdx # <<>> THEN Slice(c, startIdx[1], Len(c)) ELSE c

\* Lines 151-153.
toEnd(c, endIdx) ==
    IF endIdx # <<>> THEN Slice(c, 0, endIdx[2]) ELSE c

\* Lines 150-153: the end pattern is looked for in what lines 147-149 left.
cutEnd(c, endR) == toEnd(c, FindIndex(endR, c))

\* Lines 146-153: the range of c the two compiled patterns select.
selectRange(c, startR, endR) == cutEnd(fromStart(c, FindIndex(startR, c)), endR)

\* Lines 138-153, with what regexFor gave for the two parts.
includeCompiled(c, startR, endR) ==
    IF startR.err # nil THEN [err |-> startR.err, content |-> <<>>]
    ELSE IF endR.err # nil THEN [err |-> endR.err, content |-> <<>>]
    ELSE [err |-> nil, content |-> selectRange(c, startR.re, endR.re)]

\* Lines 133-153, with the address split at its first comma.
includeParts(c, rng) ==
    IF Len(rng) # 2 THEN [err |-> "invalid address", content |-> <<>>]
    ELSE includeCompiled(c, regexFor(rng[1]), regexFor(rng[2]))

\* Lines 129-155, with what ReadFile gave.
includeRead(f, addr) ==
    IF f.err # nil THEN [err |-> f.err, content |-> <<>>]
    ELSE IF addr = <<>> THEN [err |-> nil, content |-> f.data]
    ELSE includeParts(f.data, SplitN(addr, <<",">>, 2))

\* Lines 127-155: the file read and narrowed to the address.
includeSelect(fsys, path, addr) ==
    includeRead(ReadFile(fsys, Join(includeRoot, path)), addr)

\* bytes.Trim(c, "\n\r").
RECURSIVE TrimLeft(_)
TrimLeft(c) ==
    IF c # <<>> /\ c[1] \in {NL, CR} THEN TrimLeft(Tail(c)) ELSE c

RECURSIVE TrimRight(_)
TrimRight(c) ==
    IF c # <<>> /\ c[Len(c)] \in {NL, CR}
    THEN TrimRight(SubSeq(c, 1, Len(c) - 1)) ELSE c

Trim(c) == TrimRight(TrimLeft(c))

\* Lines 156-158.
includeFinish(c) == undent(Append(Trim(c), NL))

\* Lines 156-158 after lines 127-155 gave r.
includeReturn(r) ==
    IF r.err # nil THEN r ELSE [err |-> nil, content |-> includeFinish(r.content)]

includeExample(fsys, path, addr) == includeReturn(includeSelect(fsys, path, addr))

----------------------------------------------------------------------------
(* loadPage.                                                               *)

delim == <<"-", "-", "-">>

\* The zero value frontMatter{}.
frontMatter == [Title |-> ""]

\* yaml.Unmarshal(header, &front), over the headers of the model: "t" stands
\* for a well-formed `title: T` entry, and anything else (a stray "-", an
\* "x") makes the document one that does not decode into the struct.  A
\* header without entries leaves front as it was.
yamlUnmarshal(header, front) ==
    IF \E i \in 1..Len(header) : header[i] # "t"
    THEN [err |-> "yaml: unmarshal errors", front |-> front]
    ELSE IF \E i \in 1..Len(header) : header[i] = "t"
    THEN [err |-> nil, front |-> [front EXCEPT !.Title = "T"]]
    ELSE [err |-> nil, front |-> front]

\* Lines 206-209, with what yaml.Unmarshal gave.
pageOf(y, md) ==
    IF y.err # nil
    THEN [err |-> y.err, Front |-> frontMatter, Content |-> <<>>]
    ELSE [err |-> nil, Front |-> y.front, Content |-> md]

\* A bug loadPage could have: content with text before the first delimiter
\* is split too.
pageOfSplitAnyPrefix(c, split) ==
    IF Len(split) < 3
    THEN [err |-> nil, Front |-> frontMatter, Content |-> c]
    ELSE pageOf(yamlUnmarshal(split[2], frontMatter), split[3])

\* Lines 201-209, with the content split.
pageOfSplit(c, split) ==
    IF Len(split) < 3 \/ Len(split[1]) > 0
    THEN [err |-> nil, Front |-> frontMatter, Content |-> c]
    ELSE pageOf(yamlUnmarshal(split[2], frontMatter), split[3])

loadPage(c) == pageOfSplit(c, SplitN(c, delim, 3))

----------------------------------------------------------------------------
(* loadMarkdown.                                                           *)

mdExt == <<".", "m", "d">>

defaultTitle == "Gio - immediate mode GUI in Go"

\* The include directives of the model's documents: the byte "i" stands
\* for an include of a range of include/f, "j" for one whose address lacks
\* a separator, "k" for one of a file that does not exist.
Directive ==
    [ i |-> [path |-> <<"f">>, addr |-> <<"/", "a", "/", ",", "/", "b", "/">>],
      j |-> [path |-> <<"f">>, addr |-> <<"/", "a", "/", ",", "/", "b">>],
      k |-> [path |-> <<"g">>, addr |-> <<>>] ]

\* The files under the include root.
IncludeFS == (Join(includeRoot, <<"f">>) :> File(<<"x", "a", "b", "y", NL>>))

\* mdp.Opts.ReadIncludeFn: the included bytes, or the error's message (one
\* element stands for the message).
includedBytes(r) == IF r.err # nil THEN <<r.err>> ELSE r.content

ReadIncludeFn(path, addr) == includedBytes(includeExample(IncludeFS, path, addr))

\* markdown.ToHTML with the parser's include extension: the text in a
\* paragraph, each include directive replaced by what ReadIncludeFn gives.
ToHTML(md) ==
    <<"<p>">>
      \o Flatten([n \in 1..Len(md) |->
            IF md[n] \in DOMAIN Directive
            THEN ReadIncludeFn(Directive[md[n]].path, Directive[md[n]].addr)
            ELSE <<md[n]>>])
      \o <<"</p>">>

\* docTmpl.ExecuteTemplate(&buf, "root", args).  The templates are read
\* from template/ at startup; executing one either writes the page or
\* returns an error, here decided by the title.
ExecuteTemplate(front, html) ==
    IF front.Title \in tmplErrOn
    THEN [err |-> "template: error executing", bytes |-> <<>>]
    ELSE [err |-> nil, bytes |-> <<"<title>", front.Title, "</title>">> \o html]

\* Lines 103-105.
titled(front) ==
    IF front.Title = "" THEN [front EXCEPT !.Title = defaultTitle] ELSE front

\* A bug loadMarkdown could have: a front matter error is not returned.
renderPageLenient(page) == ExecuteTemplate(titled(page.Front), ToHTML(page.Content))

\* Lines 100-123, with what loadPage gave.
renderPage(page) ==
    IF page.err # nil
    THEN [err |-> "failed to parse front matter", bytes |-> <<>>]
    ELSE ExecuteTemplate(titled(page.Front), ToHTML(page.Content))

\* Lines 96-123, with what ReadFile gave.
renderFile(f) ==
    IF f.err # nil THEN [err |-> f.err, bytes |-> <<>>]
    ELSE renderPage(loadPage(f.data))

loadMarkdown(url) == renderFile(ReadFile(fs, Join(contentRoot, url \o mdExt)))

----------------------------------------------------------------------------
(* loadDocs.                                                               *)

\* filepath.Ext: the suffix of the last element from its last dot on.
RECURSIVE extFrom(_, _)
extFrom(path, n) ==
    IF n < 1 \/ path[n] = SEP THEN <<>>
    ELSE IF path[n] = "." THEN SubSeq(path, n, Len(path))
    ELSE extFrom(path, n - 1)

Ext(path) == extFrom(path, Len(path))

\* The tree of the model in the order filepath.Walk visits it: the root,
\* then each directory's entries by name, a directory before its entries.
TreeOrder ==
    << contentRoot,
       contentRoot \o <<SEP, "a", ".", "m", "d">>,
       contentRoot \o <<SEP, "c", ".", "t", "x", "t">>,
       contentRoot \o <<SEP, "d", ".", "m", "d">>,
       contentRoot \o <<SEP, "s">>,
       contentRoot \o <<SEP, "s", SEP, "i", "n", "d", "e", "x", ".", "m", "d">> >>

\* The paths filepath.Walk(root, fn) calls fn with.
Walk(root) == SelectSeq(TreeOrder, LAMBDA q : q \in DOMAIN fs /\ HasPrefix(q, root))

\* A bug the name could have: the root is cut off, the extension is not.
pageNameWithExt(root, path) == Slice(path, Len(root), Len(path))

\* Lines 63-64.
pageName(root, path) ==
    LET name == Slice(path, Len(root), Len(path))
    IN  Slice(name, 0, Len(name) - Len(mdExt))

\* The function loadDocs hands to filepath.Walk, applied to one path: the
\* error it returns and the cache it leaves.
\* m[k] = v.
Put(m, k, v) == [x \in DOMAIN m \cup {k} |-> IF x = k THEN v ELSE m[x]]

\* Lines 66-70, with what loadMarkdown gave.
cachePage(cache, name, r) ==
    IF r.err # nil THEN [err |-> r.err, pages |-> cache]
    ELSE [err |-> nil, pages |-> Put(cache, name, r.bytes)]

\* Lines 65-70.
loadDoc(cache, name) == cachePage(cache, name, loadMarkdown(name))

walkFn(root, path, cache) ==
    IF fs[path].dir \/ Ext(path) # mdExt THEN [err |-> nil, pages |-> cache]
    ELSE loadDoc(cache, pageName(root, path))

----------------------------------------------------------------------------
(* servePage and pageHandler.                                              *)

errNoPage == "no such page"

StatusInternalServerError == 500

\* w.Write(page): a writer takes the whole page, or fails after a part.
Write(w, page) ==
    IF w = "ok" THEN [err |-> nil, written |-> page]
    ELSE [err |-> "write: broken pipe",
          written |-> SubSeq(page, 1, IF w = "fail" THEN 0 ELSE Len(page) - 1)]

\* A bug servePage could have: a page loaded live is kept in the cache.
servePageMemo(gaeApp, path, w) ==
    IF gaeApp
    THEN IF path \notin DOMAIN pages
         THEN [err |-> errNoPage, written |-> <<>>, pages |-> pages]
         ELSE Write(w, pages[path]) @@ [pages |-> pages]
    ELSE LET r == loadMarkdown(path)
         IN  IF r.err # nil
             THEN [err |-> r.err, written |-> <<>>, pages |-> pages]
             ELSE Write(w, r.bytes)
                    @@ [pages |-> [k \in DOMAIN pages \cup {path} |->
                                     IF k = path THEN r.bytes ELSE pages[k]]]

\* Lines 84-90, with what loadMarkdown gave.
serveLoaded(r, w) ==
    IF r.err # nil THEN [err |-> r.err, written |-> <<>>, pages |-> pages]
    ELSE Write(w, r.bytes) @@ [pages |-> pages]

\* servePage: the error returned, the bytes w received and the cache after.
servePage(gaeApp, path, w) ==
    IF gaeApp
    THEN IF path \notin DOMAIN pages
         THEN [err |-> errNoPage, written |-> <<>>, pages |-> pages]
         ELSE Write(w, pages[path]) @@ [pages |-> pages]
    ELSE serveLoaded(loadMarkdown(path), w)

\* Lines 216-219.
handlerPath(urlPath) ==
    IF urlPath # <<>> /\ urlPath[Len(urlPath)] = SEP
    THEN urlPath \o <<"i", "n", "d", "e", "x">>
    ELSE urlPath

\* A bug the handler could have: every error goes to the fallback.
respondAlwaysFallback(err) == [fallback |-> err # nil, status |-> 0]

\* Lines 220-227: what the handler does with servePage's error.
respond(err) ==
    IF err # nil
    THEN IF err = errNoPage
         THEN [fallback |-> TRUE, status |-> 0]
         ELSE [fallback |-> FALSE, status |-> StatusInternalServerError]
    ELSE [fallback |-> FALSE, status |-> 0]

----------------------------------------------------------------------------
(* Each specification runs one part of the program; the variables of the   *)
(* other parts stay as these predicates leave them.                        *)

UndentIdle ==
    /\ srcLines = <<>>
    /\ text = <<>>
    /\ undented = <<>>
    /\ upc = "off"

PageIdle ==
    /\ content = <<>>
    /\ pg = [err |-> nil, Front |-> frontMatter, Content |-> <<>>]
    /\ lpc = "off"

IncludeIdle ==
    /\ incFS = <<>>
    /\ incPath = <<>>
    /\ incAddr = <<>>
    /\ incContent = <<>>
    /\ incErr = nil
    /\ incPc = "off"

ServerIdle ==
    /\ fs = <<>>
    /\ gae = FALSE
    /\ tmplErrOn = {}
    /\ phase = "off"
    /\ walk = <<>>
    /\ pages = <<>>
    /\ loadErr = nil
    /\ reqs = <<>>

----------------------------------------------------------------------------
(* Spec: the server.  init runs loadDocs over the content tree, one Walk   *)
(* callback at a time; once it has returned, up to NReq handler goroutines *)
(* serve requests concurrently.  The tree does not change while it runs.   *)

NReq == 2

\* loadDocs(filepath.Join(contentRoot)).
docsRoot == Clean(contentRoot)

\* The documents of the model: plain, titled, with a front matter that does
\* not decode, with an include that resolves, and with includes that fail.
DocSet ==
    { <<"m">>,
      delim \o <<"t">> \o delim \o <<"m">>,
      delim \o <<"x">> \o delim \o <<"m">>,
      <<"m", "i">>,
      <<"j">>,
      delim \o <<"t">> \o delim \o <<"k">> }

\* The trees of the model: content/c.txt and the directories content/d.md
\* and content/s are always there; content/a.md and content/s/index.md may
\* be.
TreeSet ==
    LET base == (TreeOrder[1] :> Dir) @@ (TreeOrder[3] :> File(<<"m">>))
                  @@ (TreeOrder[4] :> Dir) @@ (TreeOrder[5] :> Dir)
        aOpts == {<<>>} \cup {(TreeOrder[2] :> File(d)) : d \in DocSet}
        sOpts == {<<>>, (TreeOrder[6] :> File(<<"m">>))}
    IN  {base @@ a @@ x : a \in aOpts, x \in sOpts}

\* The URL paths requested: a page, a directory's index, a path without a
\* page, a directory named like a page, a path with a ".." element.
ReqPathSet ==
    { <<SEP, "a">>, <<SEP, "s", SEP>>, <<SEP, "z">>, <<SEP, "d">>,
      <<SEP, "s", SEP, ".", ".", SEP, "a">> }

WriterSet == {"ok", "fail", "short"}

idleReq ==
    [pc |-> "idle", path |-> <<>>, err |-> nil, written |-> <<>>,
     fallback |-> FALSE, status |-> 0]

Init ==
    /\ UndentIdle
    /\ PageIdle
    /\ IncludeIdle
    /\ fs \in TreeSet
    /\ gae \in BOOLEAN
    /\ tmplErrOn \in {{}, {"T"}}
    /\ phase = "init"
    /\ walk = Walk(docsRoot)
    /\ pages = <<>>
    /\ loadErr = nil
    /\ reqs = [n \in 1..NReq |-> idleReq]

\* One call of loadDocs' walk function; an error ends the walk, and init
\* ends the process with log.Fatal.
WalkStep ==
    /\ phase = "init"
    /\ walk # <<>>
    /\ \E r \in {walkFn(docsRoot, Head(walk), pages)} :
           /\ pages' = r.pages
           /\ loadErr' = r.err
           /\ IF r.err # nil
              THEN phase' = "fatal" /\ walk' = walk
              ELSE phase' = phase /\ walk' = Tail(walk)
    /\ UNCHANGED <<fs, gae, tmplErrOn, reqs, undentVars, pageVars, incVars>>

\* The walk is over: loadDocs returns nil, and the server starts.
WalkDone ==
    /\ phase = "init"
    /\ walk = <<>>
    /\ phase' = "serving"
    /\ UNCHANGED <<fs, gae, tmplErrOn, walk, pages, loadErr, reqs,
                   undentVars, pageVars, incVars>>

\* A handler goroutine takes a request and runs servePage (lines 216-220).
Serve(n, urlPath, w) ==
    /\ phase = "serving"
    /\ reqs[n].pc = "idle"
    /\ \E r \in {servePage(gae, handlerPath(urlPath), w)} :
           /\ pages' = r.pages
           /\ reqs' = [reqs EXCEPT ![n] =
                  [idleReq EXCEPT !.pc = "served", !.path = urlPath,
                                  !.err = r.err, !.written = r.written]]
    /\ UNCHANGED <<fs, gae, tmplErrOn, phase, walk, loadErr,
                   undentVars, pageVars, incVars>>

\* The handler acts on servePage's error (lines 220-227).
Respond(n) ==
    /\ reqs[n].pc = "served"
    /\ \E r \in {respond(reqs[n].err)} :
           reqs' = [reqs EXCEPT ![n].pc = "done",
                                ![n].fallback = r.fallback,
                                ![n].status = r.status]
    /\ UNCHANGED <<fs, gae, tmplErrOn, phase, walk, pages, loadErr,
                   undentVars, pageVars, incVars>>

\* The handler returns; its goroutine is free for the next request.
Return(n) ==
    /\ reqs[n].pc = "done"
    /\ reqs' = [reqs EXCEPT ![n] = idleReq]
    /\ UNCHANGED <<fs, gae, tmplErrOn, phase, walk, pages, loadErr,
                   undentVars, pageVars, incVars>>

Next ==
    \/ WalkStep
    \/ WalkDone
    \/ \E n \in 1..NReq, urlPath \in ReqPathSet, w \in WriterSet : Serve(n, urlPath, w)
    \/ \E n \in 1..NReq : Respond(n)
    \/ \E n \in 1..NReq : Return(n)

Spec == Init /\ [][Next]_vars

----------------------------------------------------------------------------
(* SpecUndent: undent applied to texts of up to MaxLines lines.            *)

MaxLines == 3

\* The lines the texts are made of: plain, indented one and two levels,
\* blank, tabs only, lines carrying the OMIT marker, and a CRLF line.
UndentLineSet ==
    { <<>>, <<"x">>, <<TAB, "x">>, <<TAB, TAB, "x">>, <<TAB>>,
      OMIT, <<TAB, TAB>> \o OMIT, <<TAB, "x", CR>> }

\* The lines joined, each but possibly the last one ended by a newline.
JoinLines(lines, lastNL) ==
    LET all == Flatten([i \in 1..Len(lines) |-> lines[i] \o <<NL>>])
    IN  IF lastNL THEN all ELSE SubSeq(all, 1, Len(all) - 1)

InitUndent ==
    /\ PageIdle
    /\ IncludeIdle
    /\ ServerIdle
    /\ srcLines \in SeqsUpTo(UndentLineSet, MaxLines)
    /\ \E lastNL \in BOOLEAN :
          /\ lastNL = FALSE =>
                srcLines # <<>> /\ dropCR(srcLines[Len(srcLines)]) # <<>>
          /\ text = JoinLines(srcLines, lastNL \/ srcLines = <<>>)
    /\ undented = <<>>
    /\ upc = "call"

Undent ==
    /\ upc = "call"
    /\ undented' = undent(text)
    /\ upc' = "done"
    /\ UNCHANGED <<srcLines, text, pageVars, incVars, srvVars>>

NextUndent == Undent

SpecUndent == InitUndent /\ [][NextUndent]_vars

----------------------------------------------------------------------------
(* SpecLoadPage: loadPage applied to contents of up to MaxTokens tokens.   *)

MaxTokens == 5

PageTokenSet == {delim, <<"-">>, <<"t">>, <<"x">>}

InitLoadPage ==
    /\ UndentIdle
    /\ IncludeIdle
    /\ ServerIdle
    /\ \E toks \in SeqsUpTo(PageTokenSet, MaxTokens) : content = Flatten(toks)
    /\ pg = [err |-> nil, Front |-> frontMatter, Content |-> <<>>]
    /\ lpc = "call"

LoadPage ==
    /\ lpc = "call"
    /\ pg' = loadPage(content)
    /\ lpc' = "done"
    /\ UNCHANGED <<content, undentVars, incVars, srvVars>>

NextLoadPage == LoadPage

SpecLoadPage == InitLoadPage /\ [][NextLoadPage]_vars

----------------------------------------------------------------------------
(* SpecInclude: includeExample applied to one file of up to MaxFileLen     *)
(* bytes, or to a missing file, with an address of up to MaxParts parts.   *)

MaxFileLen == 3
MaxParts == 2

\* The comma-separated parts the addresses are made of: well-formed
\* patterns (one empty, one anchored), one that does not compile, and
\* parts that lack a separator.
AddrPartSet ==
    { <<"/", "a", "/">>, <<"/", "b", "/">>, <<"/", "a", "b", "/">>,
      <<"/", "/">>, <<"/", "^", "b", "/">>, <<"/", "(", "/">>,
      <<"/", "a">>, <<"a", "/">>, <<"/">> }

RECURSIVE JoinParts(_)
JoinParts(parts) ==
    IF parts = <<>> THEN <<>>
    ELSE IF Len(parts) = 1 THEN parts[1]
    ELSE parts[1] \o <<",">> \o JoinParts(Tail(parts))

incName == <<"f">>

InitInclude ==
    /\ UndentIdle
    /\ PageIdle
    /\ ServerIdle
    /\ \/ incFS = <<>>
       \/ \E d \in SeqsUpTo({"a", "b", NL}, MaxFileLen) :
             incFS = (Join(includeRoot, incName) :> File(d))
    /\ incPath = incName
    /\ \E parts \in SeqsUpTo(AddrPartSet, MaxParts) : incAddr = JoinParts(parts)
    /\ incContent = <<>>
    /\ incErr = nil
    /\ incPc = "call"

\* Lines 127-155: an error returns, otherwise content holds the range.
IncludeSelect ==
    /\ incPc = "call"
    /\ \E r \in {includeSelect(incFS, incPath, incAddr)} :
           /\ incContent' = r.content
           /\ incErr' = r.err
           /\ incPc' = IF r.err # nil THEN "done" ELSE "ranged"
    /\ UNCHANGED <<incFS, incPath, incAddr, undentVars, pageVars, srvVars>>

\* Lines 156-158: the range trimmed, newline-terminated and undented.
IncludeFinish ==
    /\ incPc = "ranged"
    /\ incContent' = includeFinish(incContent)
    /\ incPc' = "done"
    /\ UNCHANGED <<incFS, incPath, incAddr, incErr, undentVars, pageVars, srvVars>>

NextInclude == IncludeSelect \/ IncludeFinish

SpecInclude == InitInclude /\ [][NextInclude]_vars

----------------------------------------------------------------------------
(* Claims about undent.                                                    *)

\* A line's text: the line without the carriage return of a CRLF ending.
LineText(l) == IF l # <<>> /\ l[Len(l)] = CR THEN SubSeq(l, 1, Len(l) - 1) ELSE l

\* The number of tab characters a line begins with.
LeadTabs(l) ==
    CHOOSE n \in 0..Len(l) :
        /\ \A i \in 1..n : l[i] = TAB
        /\ n < Len(l) => l[n + 1] # TAB

HasOMIT(l) == \E i \in 1..(Len(l) - 3) : SubSeq(l, i, i + 3) = OMIT

Min(a, b) == IF a < b THEN a ELSE b

----------------------------------------------------------------------------
(* Claims about loadPage.                                                  *)

IsDelimAt(c, i) == i + 2 <= Len(c) /\ SubSeq(c, i, i + 2) = delim

\* The content begins with a delimiter and holds a second one after it.
HasFrontMatter(c) == IsDelimAt(c, 1) /\ \E j \in 4..Len(c) : IsDelimAt(c, j)

\* Where the second delimiter begins.
SecondDelim(c) ==
    CHOOSE j \in 4..Len(c) :
        IsDelimAt(c, j) /\ \A k \in 4..(j - 1) : ~IsDelimAt(c, k)

\* C4: with "---" at the start and a second "---", the front matter is
\* decoded from the text between the two and the body is the text after
\* the second (later "---" stay in it); otherwise the front matter is empty
\* and the body is the whole content; and when loadPage succeeds,
\* delimiter + header + delimiter + body, or the body alone, is the input.
C4_FrontMatterSplit ==
    lpc = "done" =>
        IF HasFrontMatter(content)
        THEN LET j == SecondDelim(content)
                 header == SubSeq(content, 4, j - 1)
                 y == yamlUnmarshal(header, frontMatter)
             IN  /\ pg.err = y.err
                 /\ pg.err = nil =>
                       /\ pg.Front = y.front
                       /\ pg.Content = SubSeq(content, j + 3, Len(content))
                       /\ delim \o header \o delim \o pg.Content = content
        ELSE /\ pg.err = nil
             /\ pg.Front = frontMatter
             /\ pg.Content = content

\* A titled header, and a body that itself holds a "---".
C4_Witness ==
    /\ lpc = "done"
    /\ content = delim \o <<"t">> \o delim \o <<"x">> \o delim
    /\ pg = [err |-> nil, Front |-> [Title |-> "T"],
             Content |-> <<"x">> \o delim]

\* Text before the first delimiter: no front matter, whatever follows.
C4_WitnessPrefix ==
    /\ lpc = "done"
    /\ content = <<"x">> \o delim \o <<"t">> \o delim
    /\ pg.Content = content

----------------------------------------------------------------------------
(* Claims about includeExample.                                            *)

IncFileReadable == incFS # <<>>
IncFileData == incFS[Join(includeRoot, incName)].data

\* The address split at its first comma, when it has one.
HasComma(a) == \E k \in 1..Len(a) : a[k] = ","
FirstComma(a) == CHOOSE k \in 1..Len(a) : a[k] = "," /\ \A j \in 1..(k - 1) : a[j] # ","
StartPart(a) == SubSeq(a, 1, FirstComma(a) - 1)
EndPart(a) == SubSeq(a, FirstComma(a) + 1, Len(a))
Pattern(part) == SubSeq(part, 2, Len(part) - 1)

\* A pattern of the model is a literal, possibly anchored by a leading "^".
Anchored(pat) == pat # <<>> /\ pat[1] = "^"
Literal(pat) == IF Anchored(pat) THEN Tail(pat) ELSE pat

\* pat has a match in t that begins at position i.
MatchesAt(pat, t, i) ==
    /\ Anchored(pat) => i = 0
    /\ i + Len(Literal(pat)) <= Len(t)
    /\ SubSeq(t, i + 1, i + Len(Literal(pat))) = Literal(pat)

MatchPositions(pat, t) == {i \in 0..Len(t) : MatchesAt(pat, t, i)}

Least(S) == CHOOSE i \in S : \A j \in S : i <= j

\* C2: for a well-formed address /S/,/E/ on a readable file, the range
\* taken (before trimming and undenting) begins at the first match of S, or
\* at the start of the file when S has none, and ends with the first match
\* of E found in the text from that beginning on, or at the end of the file
\* when E has none there; its end is never before its beginning.
C2_RangeFromStartMatchToEndMatch ==
    (incPc = "ranged" /\ incAddr # <<>>) =>
        LET file == IncFileData
            S == Pattern(StartPart(incAddr))
            E == Pattern(EndPart(incAddr))
            sAt == MatchPositions(S, file)
            lo == IF sAt = {} THEN 0 ELSE Least(sAt)
            eAt == MatchPositions(E, SubSeq(file, lo + 1, Len(file)))
            hi == IF eAt = {} THEN Len(file)
                  ELSE lo + Least(eAt) + Len(Literal(E))
        IN  /\ lo <= hi
            /\ incContent = SubSeq(file, lo + 1, hi)

\* The end pattern also occurs before the start pattern's first match.
C2_Witness ==
    /\ incPc = "ranged"
    /\ IncFileReadable
    /\ IncFileData = <<"a", "b", "a">>
    /\ incAddr = <<"/", "b", "/", ",", "/", "a", "/">>
    /\ incContent = <<"b", "a">>

WellFormedPart(part) ==
    /\ Len(part) >= 2
    /\ part[1] = "/"
    /\ part[Len(part)] = "/"
    /\ regexpCompile(Pattern(part)).err = nil

----------------------------------------------------------------------------
(* Claims about the server.                                                *)

HasSuffix(q, suf) ==
    Len(suf) <= Len(q) /\ SubSeq(q, Len(q) - Len(suf) + 1, Len(q)) = suf

\* The regular files under the root whose name ends in ".md".
MdFiles ==
    {q \in DOMAIN fs : ~fs[q].dir /\ HasPrefix(q, docsRoot) /\ HasSuffix(q, mdExt)}

\* The path of a file without the root before it and the ".md" after it.
KeyOf(q) ==
    CHOOSE k \in {SubSeq(q, a, b) : a \in 1..(Len(q) + 1), b \in 0..Len(q)} :
        docsRoot \o k \o mdExt = q

\* Where Walk comes to a path of the tree.
WalkPos(q) == CHOOSE n \in 1..Len(TreeOrder) : TreeOrder[n] = q

\* The path servePage is called with for a request, and its file.
ServedPath(urlPath) ==
    IF urlPath # <<>> /\ urlPath[Len(urlPath)] = SEP
    THEN urlPath \o <<"i", "n", "d", "e", "x">> ELSE urlPath
PageFile(urlPath) == Join(contentRoot, ServedPath(urlPath) \o mdExt)
NoPageFor(urlPath) == PageFile(urlPath) \notin DOMAIN fs \/ fs[PageFile(urlPath)].dir

\* C1: in both modes, a finished request whose path has no page in the
\* content directory went to the fallback handler, and pageHandler wrote
\* neither page bytes nor an error response.
C1_NoPageFallsBack ==
    \A n \in DOMAIN reqs :
        (reqs[n].pc = "done" /\ NoPageFor(reqs[n].path)) =>
            /\ reqs[n].fallback
            /\ reqs[n].written = <<>>
            /\ reqs[n].status = 0

\* Which step of loading a page fails, if any: reading the file, decoding
\* the front matter, resolving an include, executing the template.
NoStep == [read |-> FALSE, front |-> FALSE, include |-> FALSE, template |-> FALSE]

DirectiveFails(d) ==
    /\ d \in DOMAIN Directive
    /\ includeExample(IncludeFS, Directive[d].path, Directive[d].addr).err # nil

StepsOfPage(page) ==
    IF page.err # nil THEN [NoStep EXCEPT !.front = TRUE]
    ELSE [NoStep EXCEPT
            !.include = \E n \in 1..Len(page.Content) : DirectiveFails(page.Content[n]),
            !.template = (IF page.Front.Title = "" THEN defaultTitle
                          ELSE page.Front.Title) \in tmplErrOn]

StepsOfFile(f) ==
    IF f.err # nil THEN [NoStep EXCEPT !.read = TRUE] ELSE StepsOfPage(loadPage(f.data))

Steps(url) == StepsOfFile(ReadFile(fs, Join(contentRoot, url \o mdExt)))

\* The URL paths of the model: the ones requested and the ones of the files.
UrlSet == {ServedPath(u) : u \in ReqPathSet} \cup {KeyOf(q) : q \in MdFiles}

\* C5 as stated: no page comes from a load in which reading the file,
\* decoding the front matter, resolving an include or executing the
\* template failed: such a load returns an error and no bytes, so its page
\* is neither in the cache nor written to a request.
C5_AnyFailedStepFailsTheLoad ==
    /\ \A k \in DOMAIN pages : Steps(k) = NoStep
    /\ \A n \in DOMAIN reqs :
          (reqs[n].pc # "idle" /\ ~gae /\ Steps(ServedPath(reqs[n].path)) # NoStep)
              => (reqs[n].err # nil /\ reqs[n].written = <<>>)

\* The text of an include's error stands in the page's bytes.
HasIncludeError(bytes) ==
    \E n \in 1..Len(bytes) :
        bytes[n] \in {"missing / separators", "no such file or directory"}

\* C5 amended: when reading the file, decoding the front matter or
\* executing the template fails, loadMarkdown returns an error and no
\* bytes: no page in the cache comes from such a load, and a live request
\* for such a page ends with an error and nothing written. An include that
\* fails does not fail the load: the page is produced, cached and served
\* with the error's message in the place of the included text.
C5_FailedStepButIncludeFailsTheLoad ==
    /\ \A k \in DOMAIN pages : \E st \in {Steps(k)} :
          /\ ~(st.read \/ st.front \/ st.template)
          /\ st.include => HasIncludeError(pages[k])
    /\ \A n \in DOMAIN reqs :
          (reqs[n].pc # "idle" /\ ~gae) =>
              \E st \in {Steps(ServedPath(reqs[n].path))} :
                  /\ (st.read \/ st.front \/ st.template)
                        => (reqs[n].err # nil /\ reqs[n].written = <<>>)
                  /\ (st.include /\ ~st.template)
                        => /\ reqs[n].err \in {nil, "write: broken pipe"}
                           /\ reqs[n].err = nil => HasIncludeError(reqs[n].written)

\* loadDocs met a page whose front matter does not decode.
C5_Witness ==
    /\ phase = "fatal"
    /\ loadErr = "failed to parse front matter"
    /\ Steps(<<SEP, "a">>).front
    /\ DOMAIN pages = {}

\* C6: once loadDocs has returned without error the cache has exactly one
\* entry per regular ".md" file under the root, under the file's path
\* without the root and the extension (the URL path that resolves to the
\* file), holding what loadMarkdown returns for it, and no other entry;
\* and when loadMarkdown fails for a file, loadDocs returns that error with
\* the walk stopped at the file.
C6_CacheHoldsEveryPage ==
    /\ phase = "serving" =>
          /\ DOMAIN pages = {KeyOf(q) : q \in MdFiles}
          /\ Cardinality(DOMAIN pages) = Cardinality(MdFiles)
          /\ loadErr = nil
          /\ \A q \in MdFiles : \E k \in {KeyOf(q)} : \E r \in {loadMarkdown(k)} :
                /\ Join(contentRoot, k \o mdExt) = q
                /\ r.err = nil
                /\ pages[k] = r.bytes
    /\ phase = "fatal" =>
          \E q \in MdFiles : \E r \in {loadMarkdown(KeyOf(q))} :
              /\ r.err # nil
              /\ loadErr = r.err
              /\ walk # <<>> /\ Head(walk) = q
              /\ DOMAIN pages = {KeyOf(x) : x \in {y \in MdFiles : WalkPos(y) < WalkPos(q)}}

\* Two pages, one of them in a subdirectory, beside the other entries.
C6_Witness ==
    /\ phase = "serving"
    /\ Cardinality(MdFiles) = 2
    /\ DOMAIN pages = {<<SEP, "a">>, <<SEP, "s", SEP, "i", "n", "d", "e", "x">>}

\* C7: once startup is over no step changes the cache, whatever the
\* requests in flight do, and a request only runs once startup is over.
C7_CacheReadOnlyAfterStartup ==
    [][/\ phase = "serving" => (pages' = pages /\ phase' = "serving")
       /\ \A n \in DOMAIN reqs' : reqs'[n].pc # "idle" => (phase = "serving" /\ walk = <<>>)
      ]_vars

\* Two requests in flight at once in the live-load mode, over a cache that
\* holds a page.
C7_Witness ==
    /\ phase = "serving"
    /\ ~gae
    /\ DOMAIN pages # {}
    /\ reqs[1].pc = "served" /\ reqs[1].err = nil
    /\ reqs[2].pc = "done" /\ reqs[2].err = nil

\* C8: on the unchanged tree, for every path and writer, servePage with
\* GAE_APPLICATION set writes the same bytes as with it unset, and
\* succeeds exactly when that succeeds.
C8_ModesAgree ==
    phase = "serving" =>
        \A u \in ReqPathSet, w \in WriterSet :
            /\ servePage(TRUE, ServedPath(u), w).written
                  = servePage(FALSE, ServedPath(u), w).written
            /\ servePage(TRUE, ServedPath(u), w).err = nil
                  <=> servePage(FALSE, ServedPath(u), w).err = nil

\* The page servePage was to write for a request.
PageFor(urlPath) ==
    IF gae THEN pages[ServedPath(urlPath)] ELSE loadMarkdown(ServedPath(urlPath)).bytes

PageWritten(r) ==
    r.err = nil /\ r.written = PageFor(r.path) /\ ~r.fallback /\ r.status = 0
FellBack(r) == r.fallback /\ r.status = 0
Failed500(r) == r.status = StatusInternalServerError /\ ~r.fallback

\* C9: a finished request ended in exactly one of: the page written and
\* nothing else; the fallback invoked; the 500 response sent.  The
\* fallback is invoked exactly when servePage returned errNoPage, never
\* after page bytes were written, and any other error gives the 500
\* response without the fallback.
C9_ExactlyOneOutcome ==
    \A n \in DOMAIN reqs :
        reqs[n].pc = "done" =>
            /\ Cardinality({o \in {"page", "fallback", "500"} :
                    \/ o = "page" /\ PageWritten(reqs[n])
                    \/ o = "fallback" /\ FellBack(reqs[n])
                    \/ o = "500" /\ Failed500(reqs[n])}) = 1
            /\ reqs[n].fallback <=> reqs[n].err = errNoPage
            /\ reqs[n].fallback => reqs[n].written = <<>>
            /\ reqs[n].err \notin {nil, errNoPage} => Failed500(reqs[n])

\* A write that failed part of the way: the 500 response, no fallback.
C9_Witness ==
    /\ reqs # <<>>
    /\ reqs[1].pc = "done"
    /\ reqs[1].written # <<>>
    /\ reqs[1].err = "write: broken pipe"
    /\ reqs[1].status = StatusInternalServerError
    /\ ~reqs[1].fallback

====
